---------------------------- MODULE Spec2Model ----------------------------
(***************************************************************************)
(* A model of the corn-kernel density estimation code:                     *)
(*   density-maps.py : read_yolo_annotations, create_density_map,          *)
(*                     create_class_specific_density_maps, resize_image,   *)
(*                     process_images                                      *)
(*   unet_smp.py     : JointTransform.__call__, CornKernelDataset          *)
(*                                                                         *)
(* Numbers.  Every value of a density field is an exact rational.  Before  *)
(* the renormalisation a field is a function from cells to integers that   *)
(* count units of 1/UnitsPerOne (= 1e-4, which is min_value).  The field   *)
(* create_density_map returns is [num, den]: cell c holds the rational     *)
(* num[c] / den.  Floating-point rounding is abstracted to exact           *)
(* arithmetic.                                                             *)
(***************************************************************************)
EXTENDS Integers, Sequences, FiniteSets, TLC

VARIABLES
    \* ---- create_density_map / create_class_specific_density_maps ----
    d_pc,               \* "ready" | "single" | "classes"
    d_image_shape,      \* the image_shape argument, <<height, width>>
    d_points,           \* the points argument, a sequence of <<x, y, class>>
    d_sigma,            \* the sigma argument, in sixteenths
    d_class_labels,     \* the class_labels argument
    d_density_map,      \* what create_density_map returned
    d_class_density_maps, \* what create_class_specific_density_maps returned
    \* ---- read_yolo_annotations ----
    r_pc,               \* "ready" | "returned"
    r_annotation_file,  \* the lines of the annotation file
    r_image_width,      \* the image_width argument
    r_image_height,     \* the image_height argument
    r_result,           \* what read_yolo_annotations returned, or the error raised
    \* ---- process_images ----
    b_pc,               \* "loop" | "done" | "raised"
    b_error,            \* the exception that left process_images, or "none"
    b_args,             \* the arguments class_labels, resize, target_size, sigma
    image_folder,       \* the names os.listdir(image_folder) returns
    todo,               \* the names the for loop has not come to yet
    annotation_folder,  \* the annotation files: name -> lines
    out_images,         \* output_image_folder: name -> size (width, height) saved
    out_maps,           \* output_map_folder: name -> the array saved and its writer
    map_writes,         \* every np.save so far: [path, file, index]
    skipped,            \* the names the "not found" diagnostic was printed for
    b_local,            \* the loop body's locals in its latest run
    \* ---- CornKernelDataset.__getitem__ ----
    g_pc,               \* "loop" | "returned" | "raised"
    g_transforms,       \* self.transform.transforms
    g_idx,              \* the position of the for loop in g_transforms
    g_image,            \* image
    g_density_map,      \* density_map
    g_gen,              \* the state of torch's global random generator
    g_call,             \* what the latest JointTransform call decided
    g_applied,          \* the transforms applied so far, in the order applied
    g_error,            \* the exception that left __getitem__, or "none"
    \* ---- resize_image ----
    z_pc,               \* "ready" | "returned"
    z_size,             \* image.size, <<width, height>>
    z_target_size,      \* the target_size argument, <<width, height>>
    z_result            \* what resize_image returned, or the error raised

densityVars == <<d_pc, d_image_shape, d_points, d_sigma, d_class_labels,
                 d_density_map, d_class_density_maps>>

readerVars == <<r_pc, r_annotation_file, r_image_width, r_image_height, r_result>>

batchVars == <<b_pc, b_error, b_args, image_folder, todo, annotation_folder,
               out_images, out_maps, map_writes, skipped, b_local>>

datasetVars == <<g_pc, g_transforms, g_idx, g_image, g_density_map, g_gen, g_call,
                 g_applied, g_error>>

resizeVars == <<z_pc, z_size, z_target_size, z_result>>

vars == <<densityVars, readerVars, batchVars, datasetVars, resizeVars>>

-----------------------------------------------------------------------------
(* Bounds of the model. *)
MaxH == 2
MaxW == 2
MaxPoints == 2
FracDen == 4
MaxImgDim == 3
MaxLines == 1
MaxFiles == 2
MaxPix == 2
MaxTransforms == 2
RngMod == 4

(* Program constants. *)
ImpulseValue == 100
UnitsPerOne == 10000
MinValue == 1

ClassIds == {0, 1}

\* What a variable holds before the call that sets it, and the outcome of a call
\* that raised.
None == [status |-> "None"]
IndexError == [status |-> "IndexError"]
ValueError == [status |-> "ValueError"]

-----------------------------------------------------------------------------
(* Helpers *)

RECURSIVE SumOver(_, _)
SumOver(f, S) ==
    IF S = {} THEN 0
    ELSE LET e == CHOOSE e \in S : TRUE IN f[e] + SumOver(f, S \ {e})

Max(a, b) == IF a >= b THEN a ELSE b

CeilDiv(a, b) == (a + b - 1) \div b

RECURSIVE SeqsUpTo(_, _)
SeqsUpTo(S, n) ==
    IF n = 0 THEN {<<>>}
    ELSE LET shorter == SeqsUpTo(S, n - 1)
         IN shorter \cup {Append(s, e) : s \in {t \in shorter : Len(t) = n - 1}, e \in S}

Cells(image_shape) == (0 .. image_shape[1] - 1) \X (0 .. image_shape[2] - 1)

\* The function f itself.  The comparison makes TLC compute the values of f once,
\* where it would otherwise compute f[x] anew at every use.
Computed(f) == IF f = f THEN f ELSE f

-----------------------------------------------------------------------------
(* scipy.ndimage.gaussian_filter(density_map, sigma=sigma, mode="constant") *)

\* The kernel radius scipy uses: int(truncate * sigma + 0.5) with truncate = 4.0,
\* sigma counted in sixteenths.
Radius(sigma) == (4 * sigma + 8) \div 16

\* The kernel's weights, centre in the middle: non-negative, symmetric, largest
\* at the centre, of 2 * radius + 1 taps; scipy divides them by their sum.  The
\* weights exp(-x^2 / (2 sigma^2)) are quantised to small integers.
Weights(radius) ==
    CASE radius = 0 -> <<1>>
      [] radius = 1 -> <<1, 2, 1>>
      [] OTHER      -> <<1, 2, 4, 2, 1>>

WeightSum(radius) ==
    LET w == Weights(radius)
    IN SumOver(w, DOMAIN w)

\* One pass of the separable filter along `axis` (1: rows, 2: columns), with
\* zeros outside the field (mode="constant", cval=0).
Correlate1d(field, image_shape, sigma, axis) ==
    LET r == Radius(sigma)
        w == Weights(r)
        at(c, k) == IF axis = 1 THEN <<c[1] + k, c[2]>> ELSE <<c[1], c[2] + k>>
        tap(c, k) == IF at(c, k) \in Cells(image_shape) THEN w[k + r + 1] * field[at(c, k)] ELSE 0
        taps(c) == [k \in -r .. r |-> tap(c, k)]
    IN Computed([c \in Cells(image_shape) |-> SumOver(taps(c), -r .. r) \div WeightSum(r)])

gaussian_filter(field, image_shape, sigma) ==
    LET rows == Correlate1d(field, image_shape, sigma, 1)
    IN Correlate1d(rows, image_shape, sigma, 2)

-----------------------------------------------------------------------------
(* create_density_map *)

\* numpy's index rule for density_map[y, x]: an index in -n .. n-1 is valid and a
\* negative one counts from the end.
NpValid(i, n) == -n <= i /\ i < n
NpIndex(i, n) == IF i < 0 THEN i + n ELSE i

PointInMap(image_shape, p) == NpValid(p[2], image_shape[1]) /\ NpValid(p[1], image_shape[2])

\* density_map = np.zeros(image_shape); for x, y, _ in points: density_map[y, x] = 100
Impulses(image_shape, points) ==
    Computed([c \in Cells(image_shape) |->
        IF \E i \in DOMAIN points :
              <<NpIndex(points[i][2], image_shape[1]), NpIndex(points[i][1], image_shape[2])>> = c
        THEN ImpulseValue * UnitsPerOne ELSE 0])

\* np.clip(density_map, a_min=min_value, a_max=None)
Clip(field, min_value) ==
    Computed([c \in DOMAIN field |-> Max(field[c], min_value)])

\* density_map / density_map.sum() * len(points) * 100
Normalize(field, n) ==
    [status |-> "ok",
     num |-> [c \in DOMAIN field |-> field[c] * n * ImpulseValue],
     den |-> SumOver(field, DOMAIN field)]

\* create_density_map without its last assignment: the clipped field as it is.
create_density_map_unnormalized(image_shape, points, sigma, min_value) ==
    IF \E i \in DOMAIN points : ~PointInMap(image_shape, points[i])
    THEN IndexError
    ELSE [status |-> "ok",
          num |-> Clip(gaussian_filter(Impulses(image_shape, points), image_shape, sigma), min_value),
          den |-> UnitsPerOne]

create_density_map(image_shape, points, sigma, min_value) ==
    IF \E i \in DOMAIN points : ~PointInMap(image_shape, points[i])
    THEN IndexError
    ELSE Normalize(Clip(gaussian_filter(Impulses(image_shape, points), image_shape, sigma), min_value),
                   Len(points))

-----------------------------------------------------------------------------
(* create_class_specific_density_maps *)

\* The list comprehension without its condition: every point, whatever its class.
ClassPoints_all(points, class_id) == points

RECURSIVE ClassPoints(_, _)
ClassPoints(points, class_id) ==
    IF points = <<>> THEN <<>>
    ELSE IF Head(points)[3] = class_id
         THEN <<Head(points)>> \o ClassPoints(Tail(points), class_id)
         ELSE ClassPoints(Tail(points), class_id)

\* An IndexError of any create_density_map call leaves the function.
create_class_specific_density_maps(image_shape, points, class_labels, sigma) ==
    LET maps == Computed([i \in DOMAIN class_labels |->
                    create_density_map(image_shape, ClassPoints(points, class_labels[i]), sigma, MinValue)])
    IN IF \E i \in DOMAIN class_labels : maps[i] = IndexError
       THEN IndexError
       ELSE [status |-> "ok", maps |-> maps]

-----------------------------------------------------------------------------
(* read_yolo_annotations *)

\* A line of an annotation file is the sequence of its whitespace-separated
\* tokens.  A token float() accepts is [num |-> k], the number k / FracDen; any
\* other token is BadToken.
BadToken == [bad |-> TRUE]
Num(k) == [num |-> k]
IsNum(tok) == "num" \in DOMAIN tok

\* int(): truncation towards zero, of the rational a / b with b > 0.
IntOf(a, b) == IF a >= 0 THEN a \div b ELSE -((-a) \div b)

\* class_id, x_center, y_center, _, _ = map(float, line.strip().split())
LineParses(line) == Len(line) = 5 /\ \A i \in 1 .. 5 : IsNum(line[i])

\* x = int(x_center * image_width); y = int(y_center * image_height)
PointOf(line, image_width, image_height) ==
    <<IntOf(line[2].num * image_width, FracDen),
      IntOf(line[3].num * image_height, FracDen),
      IntOf(line[1].num, FracDen)>>

\* The first line that does not parse raises ValueError out of the function.
read_yolo_annotations(annotation_file, image_width, image_height) ==
    IF \E i \in DOMAIN annotation_file : ~LineParses(annotation_file[i])
    THEN ValueError
    ELSE [status |-> "ok",
          points |-> [i \in DOMAIN annotation_file |->
                         PointOf(annotation_file[i], image_width, image_height)]]

-----------------------------------------------------------------------------
(* File names: a name is the sequence of its characters. *)

Jpg == <<".", "j", "p", "g">>
Png == <<".", "p", "n", "g">>
Jpeg == <<".", "j", "p", "e", "g">>
Txt == <<".", "t", "x", "t">>
ClassInfix == <<"_", "c", "l", "a", "s", "s", "_">>
DensitySuffix == <<"_", "d", "e", "n", "s", "i", "t", "y", ".", "n", "p", "y">>

\* str.lower(), on the letters the model's names use.
Lower(ch) ==
    CASE ch = "J" -> "j"
      [] ch = "P" -> "p"
      [] ch = "G" -> "g"
      [] OTHER    -> ch

LowerStr(name) == [i \in DOMAIN name |-> Lower(name[i])]

\* str.endswith()
EndsWith(name, suffix) ==
    /\ Len(name) >= Len(suffix)
    /\ SubSeq(name, Len(name) - Len(suffix) + 1, Len(name)) = suffix

\* filename.lower().endswith((".png", ".jpg", ".jpeg"))
IsImageName(filename) ==
    \E ext \in {Png, Jpg, Jpeg} : EndsWith(LowerStr(filename), ext)

\* os.path.splitext(filename)[0]: the name up to its last dot, unless only dots
\* come before that dot.
SplitextRoot(filename) ==
    LET dots == {i \in DOMAIN filename : filename[i] = "."}
        last == IF dots = {} THEN 0 ELSE CHOOSE i \in dots : \A j \in dots : j <= i
    IN IF last > 0 /\ (\E i \in 1 .. last - 1 : filename[i] # ".")
       THEN SubSeq(filename, 1, last - 1)
       ELSE filename

\* filename.split(".")[0]: the name up to its first dot.
SplitFirst(filename) ==
    LET dots == {i \in DOMAIN filename : filename[i] = "."}
        first == IF dots = {} THEN Len(filename) + 1
                 ELSE CHOOSE i \in dots : \A j \in dots : i <= j
    IN SubSeq(filename, 1, first - 1)

\* str(i) of an index below ten.
Str(i) == <<<<"0", "1", "2", "3", "4", "5", "6", "7", "8", "9">>[i + 1]>>

\* os.path.splitext(filename)[0] + ".txt", inside annotation_folder
AnnotationName(filename) == SplitextRoot(filename) \o Txt

\* A density artifact named by the first dot of the image's name.
DensityName_split(filename, i) ==
    SplitFirst(filename) \o ClassInfix \o Str(i) \o DensitySuffix

\* f"{os.path.splitext(filename)[0]}_class_{i}_density.npy", inside output_map_folder
DensityName(filename, i) ==
    SplitextRoot(filename) \o ClassInfix \o Str(i) \o DensitySuffix

\* CornKernelDataset.__init__: f.split(".")[0] for f in os.listdir(image_dir)
\* if f.endswith(".jpg"); the entry of image_files a listed name gives.
image_file(f) == SplitFirst(f)

\* CornKernelDataset.__getitem__: os.path.join(image_dir, img_name + ".jpg")
image_path(img_name) == img_name \o Jpg

\* CornKernelDataset.__getitem__: f"{img_name}_class_0_density.npy"
density_map_path(img_name) == img_name \o ClassInfix \o <<"0">> \o DensitySuffix

-----------------------------------------------------------------------------
(* resize_image: the sizes it returns; the canvas it returns has target_size.
   Image.resize raises ValueError for a size with a zero. *)

resize_image(size, target) ==
    LET original_width == size[1]
        original_height == size[2]
        target_width == target[1]
        target_height == target[2]
        \* aspect_ratio > target_width / target_height
        wide == original_width * target_height > target_width * original_height
        new_width == IF wide THEN target_width
                     ELSE IntOf(target_height * original_width, original_height)
        new_height == IF wide THEN IntOf(target_width * original_height, original_width)
                      ELSE target_height
    IN IF new_width < 1 \/ new_height < 1
       THEN ValueError
       ELSE [status |-> "ok",
             new_width |-> new_width,
             new_height |-> new_height,
             paste_x |-> (target_width - new_width) \div 2,
             paste_y |-> (target_height - new_height) \div 2]

\* (int(x * scale_x) + paste_x, int(y * scale_y) + paste_y, c) for x, y, c in points
AdjustPoints(points, size, rz) ==
    [i \in DOMAIN points |->
        <<IntOf(points[i][1] * rz.new_width, size[1]) + rz.paste_x,
          IntOf(points[i][2] * rz.new_height, size[2]) + rz.paste_y,
          points[i][3]>>]

-----------------------------------------------------------------------------
(* process_images: one run of the body of its for loop, for an image file that
   has an annotation file.  `size` is the (width, height) Image.open finds. *)

NoLocals == [filename |-> <<>>, size |-> <<0, 0>>, points |-> <<>>,
             adjusted_points |-> <<>>, image_shape |-> <<0, 0>>]

LoopBody(filename, size, annotation, args) ==
    LET rz == IF args.resize THEN resize_image(size, args.target_size) ELSE None
        rd == read_yolo_annotations(annotation, size[1], size[2])
        adjusted_points == IF args.resize THEN AdjustPoints(rd.points, size, rz)
                           ELSE rd.points
        \* image_shape = target_size, or (original_height, original_width)
        image_shape == IF args.resize THEN args.target_size ELSE <<size[2], size[1]>>
        \* the size of the image saved: the canvas of target_size, or the original
        saved == IF args.resize THEN args.target_size ELSE size
        maps == create_class_specific_density_maps(
                    image_shape, adjusted_points, args.class_labels, args.sigma)
        locals == [NoLocals EXCEPT !.filename = filename, !.size = size]
    IN IF args.resize /\ rz = ValueError
       THEN [error |-> "ValueError in resize_image", image |-> <<>>, maps |-> <<>>,
             locals |-> locals]
       ELSE IF rd = ValueError
       THEN [error |-> "ValueError in read_yolo_annotations", image |-> <<>>,
             maps |-> <<>>, locals |-> locals]
       ELSE IF maps = IndexError
       THEN [error |-> "IndexError in create_density_map", image |-> <<saved>>,
             maps |-> <<>>,
             locals |-> [locals EXCEPT !.points = rd.points,
                                       !.adjusted_points = adjusted_points,
                                       !.image_shape = image_shape]]
       ELSE [error |-> "none", image |-> <<saved>>, maps |-> maps.maps,
             locals |-> [locals EXCEPT !.points = rd.points,
                                       !.adjusted_points = adjusted_points,
                                       !.image_shape = image_shape]]

-----------------------------------------------------------------------------
(* Images and tensors.  An image or a density map is [w, h, pix, is_tensor,
   tone]: pix maps each cell <<row, column>> to the cell of the loaded array its
   content comes from, or to PadFill; tone counts the photometric changes. *)

PadFill == <<-1, -1>>

Pixels(w, h) == (0 .. h - 1) \X (0 .. w - 1)

Loaded(w, h, is_tensor) ==
    [w |-> w, h |-> h, pix |-> [c \in Pixels(w, h) |-> c],
     is_tensor |-> is_tensor, tone |-> 0]

\* TF.hflip, TF.vflip
hflip(im) ==
    [im EXCEPT !.pix = [c \in Pixels(im.w, im.h) |-> im.pix[<<c[1], im.w - 1 - c[2]>>]]]

vflip(im) ==
    [im EXCEPT !.pix = [c \in Pixels(im.w, im.h) |-> im.pix[<<im.h - 1 - c[1], c[2]>>]]]

\* TF.pad(im, [left, top, right, bottom], fill=0)
pad(im, padding) ==
    LET w == im.w + padding[1] + padding[3]
        h == im.h + padding[2] + padding[4]
        from(c) == <<c[1] - padding[2], c[2] - padding[1]>>
    IN [im EXCEPT !.w = w, !.h = h,
                  !.pix = [c \in Pixels(w, h) |->
                              IF from(c) \in Pixels(im.w, im.h) THEN im.pix[from(c)]
                              ELSE PadFill]]

\* TF.crop(im, top, left, height, width); cells outside im are filled.
crop(im, top, left, height, width) ==
    LET from(c) == <<c[1] + top, c[2] + left>>
    IN [im EXCEPT !.w = width, !.h = height,
                  !.pix = [c \in Pixels(width, height) |->
                              IF from(c) \in Pixels(im.w, im.h) THEN im.pix[from(c)]
                              ELSE PadFill]]

-----------------------------------------------------------------------------
(* torch's global generator: a state in 0 .. RngMod - 1.  A draw is a function
   of the state and moves it on; torch.manual_seed sets the state from the seed
   alone. *)

Step(gen) == (gen + 1) % RngMod
manual_seed(seed) == (2 * seed + 1) % RngMod
\* torch.randint(0, high, (1,)).item()
randint(gen, high) == gen % high
\* torch.rand(1) < 0.5
rand_below_half(gen) == 2 * gen < RngMod

-----------------------------------------------------------------------------
(* The transforms a pipeline is made of. *)

RandomHorizontalFlip == [kind |-> "RandomHorizontalFlip", size |-> <<0, 0>>]
RandomVerticalFlip == [kind |-> "RandomVerticalFlip", size |-> <<0, 0>>]
RandomCrop(size) == [kind |-> "RandomCrop", size |-> size]
ToTensor == [kind |-> "ToTensor", joint |-> FALSE]
CustomHSVTransform == [kind |-> "CustomHSVTransform", joint |-> FALSE]
JointTransform(transform) == [kind |-> "JointTransform", joint |-> TRUE, transform |-> transform]

\* transforms.RandomHorizontalFlip / RandomVerticalFlip, forward(img):
\* if torch.rand(1) < self.p: return F.hflip(img); return img
Flip(transform, im, gen) ==
    LET flipped == rand_below_half(gen)
    IN [im |-> IF ~flipped THEN im
               ELSE IF transform.kind = "RandomHorizontalFlip" THEN hflip(im)
               ELSE vflip(im),
        gen |-> Step(gen),
        flipped |-> flipped]

\* transforms.RandomCrop.get_params(img, output_size)
get_params(im, output_size, gen) ==
    LET th == output_size[1]
        tw == output_size[2]
        i == randint(gen, im.h - th + 1)
        j == randint(Step(gen), im.w - tw + 1)
    IN IF im.h < th \/ im.w < tw
       THEN [error |-> "ValueError", rect |-> <<0, 0, 0, 0>>, gen |-> gen]
       ELSE IF im.w = tw /\ im.h = th
       THEN [error |-> "none", rect |-> <<0, 0, im.h, im.w>>, gen |-> gen]
       ELSE [error |-> "none", rect |-> <<i, j, th, tw>>, gen |-> Step(Step(gen))]

-----------------------------------------------------------------------------
(* JointTransform.__call__ *)

NoCall == [kind |-> "none", image_decision |-> <<>>, map_decision |-> <<>>,
           in_size |-> <<0, 0>>, padding |-> <<0, 0, 0, 0>>, padded_size |-> <<0, 0>>]

\* The padding list whose last two entries repeat the leading halves.
CropPadding_even(crop_size, img_size) ==
    LET pad_height == Max(crop_size[1] - img_size[2], 0)
        pad_width == Max(crop_size[2] - img_size[1], 0)
    IN <<pad_width \div 2, pad_height \div 2, pad_width \div 2, pad_height \div 2>>

\* crop_height, crop_width = self.transform.size; img_width, img_height = image.size;
\* the padding list [left, top, right, bottom]
CropPadding(crop_size, img_size) ==
    LET pad_height == Max(crop_size[1] - img_size[2], 0)
        pad_width == Max(crop_size[2] - img_size[1], 0)
    IN <<pad_width \div 2, pad_height \div 2,
         pad_width - (pad_width \div 2), pad_height - (pad_height \div 2)>>

\* The branch of a RandomCrop.  image.size of a tensor is a method, and unpacking
\* it raises TypeError.
JointCrop(transform, image, density_map, gen) ==
    LET padding == CropPadding(transform.size, <<image.w, image.h>>)
        needed == padding[3] > 0 \/ padding[4] > 0
        padded_image == IF needed THEN pad(image, padding) ELSE image
        padded_map == IF needed THEN pad(density_map, padding) ELSE density_map
        p == get_params(padded_image, transform.size, gen)
        r == p.rect
        call == [NoCall EXCEPT !.kind = "RandomCrop",
                               !.in_size = <<image.w, image.h>>,
                               !.padding = IF needed THEN padding ELSE <<0, 0, 0, 0>>,
                               !.padded_size = <<padded_image.w, padded_image.h>>]
    IN IF image.is_tensor
       THEN [error |-> "TypeError", image |-> image, density_map |-> density_map,
             gen |-> gen, call |-> NoCall]
       ELSE IF p.error # "none"
       THEN [error |-> p.error, image |-> padded_image, density_map |-> padded_map,
             gen |-> p.gen, call |-> call]
       ELSE [error |-> "none",
             image |-> crop(padded_image, r[1], r[2], r[3], r[4]),
             density_map |-> crop(padded_map, r[1], r[2], r[3], r[4]),
             gen |-> p.gen,
             call |-> [call EXCEPT !.image_decision = r, !.map_decision = r]]

\* The else branch with its second torch.manual_seed(seed) left out.
JointOther_seeded_once(transform, image, density_map, gen) ==
    LET seed == randint(gen, RngMod)
        first == Flip(transform, image, manual_seed(seed))
        second == Flip(transform, density_map, first.gen)
    IN [error |-> "none", image |-> first.im, density_map |-> second.im,
        gen |-> second.gen,
        call |-> [NoCall EXCEPT !.kind = transform.kind,
                                !.in_size = <<image.w, image.h>>,
                                !.image_decision = <<first.flipped>>,
                                !.map_decision = <<second.flipped>>]]

\* The else branch: seed = torch.randint(0, 2**32, (1,)).item();
\* torch.manual_seed(seed); image = self.transform(image);
\* torch.manual_seed(seed); density_map = self.transform(density_map)
JointOther(transform, image, density_map, gen) ==
    LET seed == randint(gen, RngMod)
        first == Flip(transform, image, manual_seed(seed))
        second == Flip(transform, density_map, manual_seed(seed))
    IN [error |-> "none", image |-> first.im, density_map |-> second.im,
        gen |-> second.gen,
        call |-> [NoCall EXCEPT !.kind = transform.kind,
                                !.in_size = <<image.w, image.h>>,
                                !.image_decision = <<first.flipped>>,
                                !.map_decision = <<second.flipped>>]]

JointTransform_call(transform, image, density_map, gen) ==
    IF transform.kind = "RandomCrop"
    THEN JointCrop(transform, image, density_map, gen)
    ELSE JointOther(transform, image, density_map, gen)

-----------------------------------------------------------------------------
(* The transforms __getitem__ applies to the image alone: image = t(image).
   `adjust` is the draw of random.random() < 0.5 in CustomHSVTransform. *)

\* transforms.ToTensor raises TypeError for a tensor, TF.to_pil_image in
\* CustomHSVTransform for a PIL image.
ImageOnly(t, image, adjust) ==
    IF t.kind = "ToTensor"
    THEN IF image.is_tensor THEN [error |-> "TypeError", image |-> image]
         ELSE [error |-> "none", image |-> [image EXCEPT !.is_tensor = TRUE]]
    ELSE IF ~image.is_tensor THEN [error |-> "TypeError", image |-> image]
         ELSE [error |-> "none",
               image |-> IF adjust THEN [image EXCEPT !.tone = @ + 1] ELSE image]

\* One turn of the for loop of __getitem__ that hands the density map to every
\* transform.
ApplyTransform_to_both(t, image, density_map, gen, adjust) ==
    IF t.joint
    THEN JointTransform_call(t.transform, image, density_map, gen)
    ELSE LET r == ImageOnly(t, image, adjust)
             m == ImageOnly(t, density_map, adjust)
         IN [error |-> r.error, image |-> r.image, density_map |-> m.image,
             gen |-> gen, call |-> NoCall]

\* One turn of the for loop of __getitem__:
\* if isinstance(t, JointTransform): image, density_map = t(image, density_map)
\* else: image = t(image)
ApplyTransform(t, image, density_map, gen, adjust) ==
    IF t.joint
    THEN JointTransform_call(t.transform, image, density_map, gen)
    ELSE LET r == ImageOnly(t, image, adjust)
         IN [error |-> r.error, image |-> r.image, density_map |-> density_map,
             gen |-> gen, call |-> NoCall]

-----------------------------------------------------------------------------
(* The variables of a part of the program that a specification does not run. *)

DensityIdle ==
    /\ d_pc = "idle"
    /\ d_image_shape = <<0, 0>>
    /\ d_points = <<>>
    /\ d_sigma = 0
    /\ d_class_labels = <<>>
    /\ d_density_map = None
    /\ d_class_density_maps = None

DatasetIdle ==
    /\ g_pc = "idle"
    /\ g_transforms = <<>>
    /\ g_idx = 0
    /\ g_image = None
    /\ g_density_map = None
    /\ g_gen = 0
    /\ g_call = NoCall
    /\ g_applied = <<>>
    /\ g_error = "none"

ReaderIdle ==
    /\ r_pc = "idle"
    /\ r_annotation_file = <<>>
    /\ r_image_width = 0
    /\ r_image_height = 0
    /\ r_result = None

ResizeIdle ==
    /\ z_pc = "idle"
    /\ z_size = <<0, 0>>
    /\ z_target_size = <<0, 0>>
    /\ z_result = None

BatchIdle ==
    /\ b_pc = "idle"
    /\ b_error = "none"
    /\ b_args = None
    /\ image_folder = {}
    /\ todo = {}
    /\ annotation_folder = <<>>
    /\ out_images = <<>>
    /\ out_maps = <<>>
    /\ map_writes = {}
    /\ skipped = {}
    /\ b_local = NoLocals

-----------------------------------------------------------------------------
(* The density functions, called on every input within the bounds. *)

Sigmas == {1, 4, 8}
LabelLists == {<<0>>, <<0, 1>>, <<1, 0>>, <<0, 0>>}

\* The in-bounds d_points of an image of this shape.
PointsIn(image_shape) ==
    {<<x, y, c>> : x \in 0 .. image_shape[2] - 1, y \in 0 .. image_shape[1] - 1,
                   c \in ClassIds}

DensityStart ==
    /\ d_pc = "ready"
    /\ d_image_shape \in (1 .. MaxH) \X (1 .. MaxW)
    /\ d_points \in SeqsUpTo(PointsIn(d_image_shape), MaxPoints)
    /\ d_sigma \in Sigmas
    /\ d_class_labels = <<>>
    /\ d_density_map = None
    /\ d_class_density_maps = None

Call_create_density_map ==
    /\ d_pc = "ready"
    /\ d_density_map' = create_density_map(d_image_shape, d_points, d_sigma, MinValue)
    /\ d_pc' = "single"
    /\ UNCHANGED <<d_image_shape, d_points, d_sigma, d_class_labels, d_class_density_maps>>
    /\ UNCHANGED <<readerVars, batchVars, datasetVars, resizeVars>>

Call_create_class_specific_density_maps ==
    /\ d_pc = "ready"
    /\ \E labels \in LabelLists :
          /\ d_class_labels' = labels
          /\ d_class_density_maps' =
                create_class_specific_density_maps(d_image_shape, d_points, labels, d_sigma)
    /\ d_pc' = "classes"
    /\ UNCHANGED <<d_image_shape, d_points, d_sigma, d_density_map>>
    /\ UNCHANGED <<readerVars, batchVars, datasetVars, resizeVars>>

NextDensity ==
    \/ Call_create_density_map
    \/ Call_create_class_specific_density_maps

InitDensity == DensityStart /\ ReaderIdle /\ BatchIdle /\ DatasetIdle /\ ResizeIdle

SpecDensity == InitDensity /\ [][NextDensity]_vars

\* The total of a returned map, as the numerator over the map's den.
MapSum(m) == SumOver(m.num, DOMAIN m.num)

\* Cell c of a returned map compared with min_value = MinValue / UnitsPerOne.
CellEqualsMin(m, c) == m.num[c] * UnitsPerOne = MinValue * m.den
CellAtLeastMin(m, c) == m.num[c] >= CeilDiv(MinValue * m.den, UnitsPerOne)

(* C1: for any image shape, any sigma > 0 and any list of n in-bounds points
   (points sharing a coordinate are each counted in n), the map
   create_density_map returns has total sum n * 100. *)
C1_MassIsCountTimes100 ==
    d_pc = "single" =>
        /\ d_density_map # IndexError
        /\ MapSum(d_density_map) = Len(d_points) * ImpulseValue * d_density_map.den

\* Two d_points share a coordinate and the map's total is 200.
C1_Witness ==
    /\ d_pc = "single"
    /\ Len(d_points) = 2
    /\ d_points[1][1] = d_points[2][1]
    /\ d_points[1][2] = d_points[2][2]
    /\ MapSum(d_density_map) = 2 * ImpulseValue * d_density_map.den

(* C2: create_density_map called with an empty point list returns a field in
   which every cell equals min_value, and so does every map
   create_class_specific_density_maps returns for a label no point has. *)
C2_EmptyIsAllMinValue ==
    /\ (d_pc = "single" /\ d_points = <<>>) =>
          \A c \in Cells(d_image_shape) : CellEqualsMin(d_density_map, c)
    /\ d_pc = "classes" =>
          \A i \in DOMAIN d_class_labels :
             ClassPoints(d_points, d_class_labels[i]) = <<>> =>
                \A c \in Cells(d_image_shape) : CellEqualsMin(d_class_density_maps.maps[i], c)

(* C3: every cell of every map create_density_map returns is >= min_value. *)
C3_FloorAfterRenormalization ==
    d_pc = "single" =>
        \A c \in Cells(d_image_shape) : CellAtLeastMin(d_density_map, c)

\* The total mass of a returned map as a whole number, -1 when it is not one.
Mass(m) == IF MapSum(m) % m.den = 0 THEN MapSum(m) \div m.den ELSE -1

\* The labels are distinct and every point's class is one of them.
LabelsPartition(points, class_labels) ==
    /\ \A i, j \in DOMAIN class_labels : class_labels[i] = class_labels[j] => i = j
    /\ \A k \in DOMAIN points : \E i \in DOMAIN class_labels : class_labels[i] = points[k][3]

(* C11: create_class_specific_density_maps returns one map per entry of
   class_labels, in the order of class_labels, the i-th equal to
   create_density_map of the points whose class is class_labels[i]; when the
   labels are distinct and cover every point's class, the masses of the maps
   add up to the mass of create_density_map over all points. *)
C11_PerClassDecomposition ==
    d_pc = "classes" =>
        /\ d_class_density_maps # IndexError
        /\ LET maps == d_class_density_maps.maps
               whole == create_density_map(d_image_shape, d_points, d_sigma, MinValue)
           IN /\ DOMAIN maps = DOMAIN d_class_labels
              /\ \A i \in DOMAIN d_class_labels :
                    maps[i] = create_density_map(d_image_shape,
                                  SelectSeq(d_points, LAMBDA p : p[3] = d_class_labels[i]),
                                  d_sigma, MinValue)
              /\ LabelsPartition(d_points, d_class_labels) =>
                    SumOver([i \in DOMAIN maps |-> Mass(maps[i])], DOMAIN maps) = Mass(whole)

\* Two labels, a point of each class: two maps of mass 100 each.
C11_Witness ==
    /\ d_pc = "classes"
    /\ Len(d_class_labels) = 2
    /\ LabelsPartition(d_points, d_class_labels)
    /\ \A i \in DOMAIN d_class_labels :
          \E k \in DOMAIN d_points : d_points[k][3] = d_class_labels[i]
    /\ d_class_density_maps # IndexError
    /\ \A i \in DOMAIN d_class_labels : Mass(d_class_density_maps.maps[i]) = ImpulseValue

-----------------------------------------------------------------------------
(* read_yolo_annotations, called on every annotation file within the bounds:
   records whose centre fractions are k / FracDen with 0 <= k <= FracDen, and
   lines that do not parse. *)

GoodLines ==
    {<<Num(c * FracDen), Num(kx), Num(ky), Num(1), Num(1)>> :
        c \in ClassIds, kx \in 0 .. FracDen, ky \in 0 .. FracDen}

MalformedLines ==
    {<<Num(0), Num(1), Num(1), Num(1)>>,
     <<Num(0), Num(1), Num(1), Num(1), Num(1), Num(1)>>,
     <<Num(0), BadToken, Num(1), Num(1), Num(1)>>}

ReaderStart ==
    /\ r_pc = "ready"
    /\ r_annotation_file \in SeqsUpTo(GoodLines \cup MalformedLines, MaxLines)
    /\ r_image_width \in 1 .. MaxImgDim
    /\ r_image_height \in 1 .. MaxImgDim
    /\ r_result = None

Call_read_yolo_annotations ==
    /\ r_pc = "ready"
    /\ r_result' = read_yolo_annotations(r_annotation_file, r_image_width, r_image_height)
    /\ r_pc' = "returned"
    /\ UNCHANGED <<r_annotation_file, r_image_width, r_image_height>>
    /\ UNCHANGED <<densityVars, batchVars, datasetVars, resizeVars>>

NextReader == Call_read_yolo_annotations

InitReader == ReaderStart /\ DensityIdle /\ BatchIdle /\ DatasetIdle /\ ResizeIdle

SpecReader == InitReader /\ [][NextReader]_vars

\* floor(k * size / FracDen), the pixel the spec gives the fraction k / FracDen.
FloorOf(k, size) == (k * size) \div FracDen

(* C8: for every annotation record whose centre fractions lie in [0,1] and
   every image size (width, height) >= 1, the point read_yolo_annotations
   produces has 0 <= x < width and 0 <= y < height, with
   x = floor(x_center * width) and y = floor(y_center * height). *)
C8_PointsInsideImage ==
    (r_pc = "returned" /\ r_result.status = "ok") =>
        \A i \in DOMAIN r_annotation_file :
            LET p == r_result.points[i]
            IN /\ p[1] = FloorOf(r_annotation_file[i][2].num, r_image_width)
               /\ p[2] = FloorOf(r_annotation_file[i][3].num, r_image_height)
               /\ 0 <= p[1] /\ p[1] < r_image_width
               /\ 0 <= p[2] /\ p[2] < r_image_height

-----------------------------------------------------------------------------
(* process_images over every folder within the bounds. *)

FileNames ==
    {<<"a">> \o Jpg, <<"a">> \o Png, <<"a", ".", "b">> \o Jpg,
     <<"b", ".", "J", "P", "G">>, <<"b">> \o Txt}

ImageSizes == {<<2, 2>>, <<3, 1>>}

BatchArgs ==
    {[class_labels |-> l, resize |-> FALSE, target_size |-> <<2, 2>>, sigma |-> 4] :
        l \in {<<0>>, <<0, 1>>}}
    \cup
    {[class_labels |-> l, resize |-> TRUE, target_size |-> t, sigma |-> 4] :
        l \in {<<0>>, <<0, 1>>}, t \in {<<2, 2>>, <<3, 2>>}}

\* The annotation files: no record; two records inside the image; a record
\* whose x centre is 1.0; a line of four tokens.
AnnotationContents ==
    {<<>>,
     <<<<Num(0), Num(FracDen - 1), Num(FracDen - 1), Num(1), Num(1)>>,
       <<Num(FracDen), Num(0), Num(0), Num(1), Num(1)>>>>,
     <<<<Num(0), Num(FracDen), Num(0), Num(1), Num(1)>>>>,
     <<<<Num(0), Num(1), Num(1), Num(1)>>>>}

BatchStart ==
    /\ b_pc = "loop"
    /\ b_error = "none"
    /\ b_args \in BatchArgs
    /\ image_folder \in {S \in SUBSET FileNames : Cardinality(S) \in 1 .. MaxFiles}
    /\ todo = image_folder
    /\ \E present \in SUBSET {AnnotationName(f) : f \in {g \in image_folder : IsImageName(g)}} :
          annotation_folder \in [present -> AnnotationContents]
    /\ out_images = <<>>
    /\ out_maps = <<>>
    /\ map_writes = {}
    /\ skipped = {}
    /\ b_local = NoLocals

\* The for loop goes on to the next name, or ends after the last.
LoopOn == b_pc' = IF todo' = {} THEN "done" ELSE "loop"

\* if filename.lower().endswith((".png", ".jpg", ".jpeg")): else nothing
IgnoreFile ==
    /\ b_pc = "loop"
    /\ \E filename \in todo :
          /\ ~IsImageName(filename)
          /\ todo' = todo \ {filename}
    /\ LoopOn
    /\ UNCHANGED <<b_error, b_args, image_folder, annotation_folder, out_images,
                   out_maps, map_writes, skipped, b_local>>
    /\ UNCHANGED <<densityVars, readerVars, datasetVars, resizeVars>>

\* The missing annotation file taken as fatal: the loop ends at the diagnostic.
SkipFile_fatal ==
    /\ b_pc = "loop"
    /\ \E filename \in todo :
          /\ IsImageName(filename)
          /\ AnnotationName(filename) \notin DOMAIN annotation_folder
          /\ todo' = todo \ {filename}
          /\ skipped' = skipped \cup {filename}
    /\ b_pc' = "raised"
    /\ UNCHANGED <<b_error, b_args, image_folder, annotation_folder, out_images,
                   out_maps, map_writes, b_local>>
    /\ UNCHANGED <<densityVars, readerVars, datasetVars, resizeVars>>

\* if not os.path.exists(annotation_path): print(...); continue
SkipFile ==
    /\ b_pc = "loop"
    /\ \E filename \in todo :
          /\ IsImageName(filename)
          /\ AnnotationName(filename) \notin DOMAIN annotation_folder
          /\ todo' = todo \ {filename}
          /\ skipped' = skipped \cup {filename}
    /\ LoopOn
    /\ UNCHANGED <<b_error, b_args, image_folder, annotation_folder, out_images,
                   out_maps, map_writes, b_local>>
    /\ UNCHANGED <<densityVars, readerVars, datasetVars, resizeVars>>

\* The rest of the loop body; an exception leaves process_images, which has no
\* try statement.
ProcessFile ==
    /\ b_pc = "loop"
    /\ \E filename \in todo, size \in ImageSizes :
          /\ IsImageName(filename)
          /\ AnnotationName(filename) \in DOMAIN annotation_folder
          /\ LET o == LoopBody(filename, size,
                               annotation_folder[AnnotationName(filename)], b_args)
                 saves == {[path |-> DensityName(filename, i - 1), file |-> filename,
                            index |-> i - 1] : i \in DOMAIN o.maps}
             IN /\ todo' = todo \ {filename}
                /\ b_local' = o.locals
                /\ b_error' = o.error
                /\ out_images' = IF o.image = <<>> THEN out_images
                                 ELSE (filename :> o.image[1]) @@ out_images
                /\ out_maps' =
                      [path \in {w.path : w \in saves} \cup DOMAIN out_maps |->
                          IF \E w \in saves : w.path = path
                          THEN LET w == CHOOSE w \in saves : w.path = path
                               IN [file |-> filename,
                                   shape |-> o.locals.image_shape,
                                   array |-> o.maps[w.index + 1]]
                          ELSE out_maps[path]]
                /\ map_writes' = map_writes \cup saves
                /\ b_pc' = IF o.error # "none" THEN "raised"
                           ELSE IF todo' = {} THEN "done" ELSE "loop"
    /\ UNCHANGED <<b_args, image_folder, annotation_folder, skipped>>
    /\ UNCHANGED <<densityVars, readerVars, datasetVars, resizeVars>>

NextBatch ==
    \/ IgnoreFile
    \/ SkipFile
    \/ ProcessFile

InitBatch == BatchStart /\ DensityIdle /\ ReaderIdle /\ DatasetIdle /\ ResizeIdle

SpecBatch == InitBatch /\ [][NextBatch]_vars

\* The image file has an annotation file every line of which parses.
HasWellFormedAnnotation(filename) ==
    /\ IsImageName(filename)
    /\ AnnotationName(filename) \in DOMAIN annotation_folder
    /\ \A i \in DOMAIN annotation_folder[AnnotationName(filename)] :
          LineParses(annotation_folder[AnnotationName(filename)][i])

\* The image and every density artifact of the file are in the output folders.
ArtifactsWritten(filename) ==
    /\ filename \in DOMAIN out_images
    /\ \A i \in DOMAIN b_args.class_labels :
          DensityName(filename, i - 1) \in DOMAIN out_maps

(* C6: a malformed annotation line aborts the processing of that one image
   only: once process_images has met it, every image of the folder that has a
   well-formed annotation file still has its image and density artifacts
   written when process_images ends. *)
C6_MalformedAbortsOneImageOnly ==
    (b_pc = "raised" /\ b_error = "ValueError in read_yolo_annotations") =>
        \A f \in image_folder : HasWellFormedAnnotation(f) => ArtifactsWritten(f)

(* C9: with resize enabled or disabled and for every target_size, each
   persisted density map has the shape (height, width) of the image persisted
   for it, and every re-projected point of an annotation inside the original
   image indexes inside the map. *)
C9_MapShapeIsImageShape ==
    /\ \A path \in DOMAIN out_maps :
          LET m == out_maps[path]
          IN /\ m.file \in DOMAIN out_images
             /\ m.shape = <<out_images[m.file][2], out_images[m.file][1]>>
    /\ (\A i \in DOMAIN b_local.points :
            /\ 0 <= b_local.points[i][1] /\ b_local.points[i][1] < b_local.size[1]
            /\ 0 <= b_local.points[i][2] /\ b_local.points[i][2] < b_local.size[2])
       => \A i \in DOMAIN b_local.adjusted_points :
            /\ 0 <= b_local.adjusted_points[i][2]
            /\ b_local.adjusted_points[i][2] < b_local.image_shape[1]
            /\ 0 <= b_local.adjusted_points[i][1]
            /\ b_local.adjusted_points[i][1] < b_local.image_shape[2]

(* C10, as claimed: for any two distinct image files of the input folder and
   any class indices, the density artifact paths process_images writes are
   distinct. *)
C10_DistinctFilesDistinctPaths ==
    \A w1 \in map_writes, w2 \in map_writes :
        w1.file # w2.file => w1.path # w2.path

(* C10, amended: for any two image files whose names differ before the last
   extension (os.path.splitext(filename)[0]), and for any two class indices of
   one file, the density artifact paths process_images writes are distinct. *)
C10_DistinctStemsDistinctPaths ==
    \A w1 \in map_writes, w2 \in map_writes :
        (SplitextRoot(w1.file) # SplitextRoot(w2.file) \/ w1.index # w2.index)
            => w1.path # w2.path

\* Two files with different stems, one of them with two dots in its name, have
\* both had their density maps written, and the loop has ended.
C10_Witness ==
    /\ b_pc = "done"
    /\ \E w1 \in map_writes, w2 \in map_writes :
          /\ SplitextRoot(w1.file) # SplitextRoot(w2.file)
          /\ SplitFirst(w1.file) = SplitFirst(w2.file)
          /\ w1.path # w2.path

-----------------------------------------------------------------------------
(* CornKernelDataset.__getitem__ over every pipeline within the bounds, from
   the image and the density map as loaded, of one size. *)

CropSizes == {<<2, 2>>, <<1, 3>>}

Transforms ==
    {JointTransform(RandomHorizontalFlip), JointTransform(RandomVerticalFlip),
     ToTensor, CustomHSVTransform}
    \cup {JointTransform(RandomCrop(size)) : size \in CropSizes}

DatasetStart ==
    /\ g_pc = "loop"
    /\ g_transforms \in SeqsUpTo(Transforms, MaxTransforms)
    /\ g_idx = 1
    /\ \E w \in 1 .. MaxPix, h \in 1 .. MaxPix :
          /\ g_image = Loaded(w, h, FALSE)
          /\ g_density_map = Loaded(w, h, TRUE)
    /\ g_gen \in 0 .. RngMod - 1
    /\ g_call = NoCall
    /\ g_applied = <<>>
    /\ g_error = "none"

\* for t in self.transform.transforms: one turn
GetItemStep ==
    /\ g_pc = "loop"
    /\ g_idx <= Len(g_transforms)
    /\ \E adjust \in BOOLEAN :
          LET t == g_transforms[g_idx]
              r == ApplyTransform(t, g_image, g_density_map, g_gen, adjust)
          IN /\ g_applied' = Append(g_applied, t)
             /\ g_call' = r.call
             /\ g_error' = r.error
             /\ g_gen' = r.gen
             /\ IF r.error # "none"
                THEN /\ g_pc' = "raised"
                     /\ UNCHANGED <<g_idx, g_image, g_density_map>>
                ELSE /\ g_image' = r.image
                     /\ g_density_map' = r.density_map
                     /\ g_idx' = g_idx + 1
                     /\ g_pc' = "loop"
    /\ UNCHANGED g_transforms
    /\ UNCHANGED <<densityVars, readerVars, batchVars, resizeVars>>

\* return image, density_map
GetItemReturn ==
    /\ g_pc = "loop"
    /\ g_idx > Len(g_transforms)
    /\ g_pc' = "returned"
    /\ UNCHANGED <<g_transforms, g_idx, g_image, g_density_map, g_gen, g_call,
                   g_applied, g_error>>
    /\ UNCHANGED <<densityVars, readerVars, batchVars, resizeVars>>

NextDataset ==
    \/ GetItemStep
    \/ GetItemReturn

InitDataset == DatasetStart /\ DensityIdle /\ ReaderIdle /\ BatchIdle /\ ResizeIdle

SpecDataset == InitDataset /\ [][NextDataset]_vars

(* C4: in every JointTransform call on an (image, density map) pair of equal
   spatial size both members receive the same random decision: a random flip
   flips both or neither, RandomCrop crops both with the same origin (i, j)
   and size (h, w); so the two stay co-registered cell for cell. *)
C4_SameRandomDecision ==
    /\ g_call.kind # "none" => g_call.image_decision = g_call.map_decision
    /\ g_pc # "idle" =>
          /\ g_image.w = g_density_map.w
          /\ g_image.h = g_density_map.h
          /\ g_image.pix = g_density_map.pix

\* A horizontal flip has flipped both: column 0 of each now holds the content of
\* the last column.
C4_Witness ==
    /\ g_call.kind = "RandomHorizontalFlip"
    /\ g_call.image_decision = <<TRUE>>
    /\ g_image.w >= 2
    /\ g_image.pix[<<0, 0>>] = <<0, g_image.w - 1>>
    /\ g_density_map.pix[<<0, 0>>] = <<0, g_density_map.w - 1>>

(* C5: in JointTransform with RandomCrop (crop_h, crop_w), a dimension smaller
   than the crop is padded by p = crop - size, floor(p/2) on the leading side
   and p - floor(p/2) on the trailing side, so that the padded size is the crop
   size; a dimension that is large enough is not padded; and the cropped image
   and the cropped density map have the size (crop_h, crop_w) exactly. *)
C5_PadThenCropSizes ==
    /\ g_error # "ValueError"
    /\ (g_call.kind = "RandomCrop" /\ g_error = "none") =>
          LET crop_size == g_applied[Len(g_applied)].transform.size
              crop_h == crop_size[1]
              crop_w == crop_size[2]
              in_w == g_call.in_size[1]
              in_h == g_call.in_size[2]
              p_w == IF in_w < crop_w THEN crop_w - in_w ELSE 0
              p_h == IF in_h < crop_h THEN crop_h - in_h ELSE 0
          IN /\ g_call.padding = <<p_w \div 2, p_h \div 2,
                                   p_w - (p_w \div 2), p_h - (p_h \div 2)>>
             /\ g_call.padded_size = <<Max(in_w, crop_w), Max(in_h, crop_h)>>
             /\ <<g_image.h, g_image.w>> = crop_size
             /\ <<g_density_map.h, g_density_map.w>> = crop_size
             /\ DOMAIN g_image.pix = Pixels(crop_w, crop_h)
             /\ DOMAIN g_density_map.pix = Pixels(crop_w, crop_h)

\* An image one column narrower than a crop of three columns was padded by an
\* odd amount, all of it on the trailing side, and cropped at a row below the top.
C5_Witness ==
    /\ g_call.kind = "RandomCrop"
    /\ g_error = "none"
    /\ g_call.in_size = <<2, 2>>
    /\ g_call.padding = <<0, 0, 1, 0>>
    /\ g_call.image_decision = <<1, 0, 1, 3>>
    /\ g_image.pix = [c \in Pixels(3, 1) |-> IF c[2] = 2 THEN PadFill ELSE <<1, c[2]>>]

(* C7: the configured transforms run in their declared order, and a transform
   that is not a JointTransform is applied to the image only: such a step
   leaves the density map unchanged. *)
C7_ImageOnlyLeavesDensityMap ==
    /\ [](g_applied = SubSeq(g_transforms, 1, Len(g_applied)))
    /\ [][(g_pc = "loop" /\ g_idx <= Len(g_transforms) /\ ~g_transforms[g_idx].joint)
             => g_density_map' = g_density_map]_vars

\* An image-only transform has run after a joint flip that flipped the density
\* map, and has changed the image.
C7_Witness ==
    /\ g_idx = 3
    /\ g_transforms[1].joint
    /\ ~g_transforms[2].joint
    /\ g_image.is_tensor
    /\ g_density_map.w >= 2
    /\ g_density_map.pix[<<0, 0>>] = <<0, g_density_map.w - 1>>

-----------------------------------------------------------------------------
(* process_images and the image files that have no annotation file *)

\* The image file has no annotation file.
MissingAnnotation(filename) ==
    /\ IsImageName(filename)
    /\ AnnotationName(filename) \notin DOMAIN annotation_folder

\* Nothing was written for the file.
NothingWritten(filename) ==
    /\ filename \notin DOMAIN out_images
    /\ \A w \in map_writes : w.file # filename
    /\ \A i \in DOMAIN b_args.class_labels :
          DensityName(filename, i - 1) \notin DOMAIN out_maps

(* C13: an image file with no annotation file is skipped: once the loop has
   come to it, the diagnostic has been printed for it and no image artifact and
   no density artifact is ever written for it; the skip writes nothing, raises
   nothing and leaves the loop running on the remaining names, so that when
   process_images returns every image file that has an annotation file has its
   artifacts written. *)
C13_MissingAnnotationSkipped ==
    /\ [](\A f \in image_folder :
            MissingAnnotation(f) =>
                /\ NothingWritten(f)
                /\ f \notin todo => f \in skipped)
    /\ [](b_pc = "done" =>
            \A f \in image_folder :
                (IsImageName(f) /\ ~MissingAnnotation(f)) => ArtifactsWritten(f))
    /\ [][skipped' # skipped =>
            /\ b_pc' = (IF todo' = {} THEN "done" ELSE "loop")
            /\ b_error' = "none"
            /\ out_images' = out_images /\ out_maps' = out_maps
            /\ map_writes' = map_writes]_vars

\* One file of the folder was skipped, another has its artifacts written, and
\* process_images has returned.
C13_Witness ==
    /\ b_pc = "done"
    /\ \E f \in image_folder : MissingAnnotation(f) /\ f \in skipped /\ NothingWritten(f)
    /\ \E f \in image_folder : ~MissingAnnotation(f) /\ ArtifactsWritten(f)

(* C14: for every image file name ending in ".jpg" that process_images
   persisted (image and density maps), the image path and the class-0 density
   path CornKernelDataset.__getitem__ computes for it are the paths
   process_images wrote, names with more than one dot included. *)
C14_ProducerConsumerNamesAgree ==
    \A f \in DOMAIN out_images :
        (EndsWith(f, Jpg) /\ ArtifactsWritten(f)) =>
            /\ image_path(image_file(f)) = f
            /\ density_map_path(image_file(f)) = DensityName(f, 0)

-----------------------------------------------------------------------------
(* resize_image, called on every image size and target size within the
   bounds. *)

ResizeStart ==
    /\ z_pc = "ready"
    /\ z_size \in (1 .. MaxImgDim) \X (1 .. MaxImgDim)
    /\ z_target_size \in (1 .. MaxImgDim) \X (1 .. MaxImgDim)
    /\ z_result = None

Call_resize_image ==
    /\ z_pc = "ready"
    /\ z_result' = resize_image(z_size, z_target_size)
    /\ z_pc' = "returned"
    /\ UNCHANGED <<z_size, z_target_size>>
    /\ UNCHANGED <<densityVars, readerVars, batchVars, datasetVars>>

NextResize == Call_resize_image

InitResize == ResizeStart /\ DensityIdle /\ ReaderIdle /\ BatchIdle /\ DatasetIdle

SpecResize == InitResize /\ [][NextResize]_vars

(* C12: for every image size and every target size (TW, TH) of positive
   integers resize_image returns 1 <= new_w <= TW and 1 <= new_h <= TH, the
   binding dimension equal to its target, offsets >= 0 that center the scaled
   region to within one pixel, and for an image already of size (TW, TH) the
   result new_w = TW, new_h = TH, paste_x = 0, paste_y = 0. *)
C12_LetterboxBounds ==
    z_pc = "returned" =>
        /\ z_result # ValueError
        /\ LET TW == z_target_size[1]
               TH == z_target_size[2]
               new_w == z_result.new_width
               new_h == z_result.new_height
               paste_x == z_result.paste_x
               paste_y == z_result.paste_y
           IN /\ 1 <= new_w /\ new_w <= TW
              /\ 1 <= new_h /\ new_h <= TH
              /\ new_w = TW \/ new_h = TH
              /\ paste_x >= 0 /\ paste_y >= 0
              /\ TW - (2 * paste_x + new_w) \in {0, 1}
              /\ TH - (2 * paste_y + new_h) \in {0, 1}
              /\ z_size = z_target_size =>
                    new_w = TW /\ new_h = TH /\ paste_x = 0 /\ paste_y = 0

=============================================================================
